---- MODULE Spec2Model ----
(***************************************************************************)
(* Fit scoring of the Recommendations page (src/unnamed/part_000):         *)
(* calculateFitStatus, the FABRIC_EASE_CONFIGS table, the construction of  *)
(* measurementComparisons and deriveActualConfidence.                      *)
(*                                                                         *)
(* Numbers.  Measurements are JavaScript doubles.  The model keeps them as *)
(* integers counted in units of 1/160 cm, and draws every input from the   *)
(* grid of multiples of 1/32 cm: those are exactly representable doubles,  *)
(* their difference is computed without rounding error, and so             *)
(* (chartValue - userValue).toFixed(1) is the decimal rounding of the      *)
(* exact difference, which the model computes on integers.  1/10 cm is 16  *)
(* units, so every one-decimal value is an integer number of units too.    *)
(*                                                                         *)
(* Strings the code inspects character by character (status words) are     *)
(* sequences of one-character strings; strings that are only compared or   *)
(* used as property names (fabric types) are TLA+ strings.                 *)
(***************************************************************************)
EXTENDS Integers, Sequences, FiniteSets, TLC

VARIABLES
  FABRIC_EASE_CONFIGS,  \* the module-level table object
  fit,                  \* one call of calculateFitStatus: arguments, pc, result
  derive,               \* one call of deriveActualConfidence: inputs, pc, result
  recommendation,       \* useQuery(["/api/recommendations", id]): isLoading, data
  profile,              \* useQuery(["/api/profile"]).data
  selectedSize,         \* useState<string | null>(null)
  view,                 \* what the last render of Recommendations computed
  normalize,            \* one normalization of a chart key: key, pc, userKey
  history,              \* observer: last handler run and first result per size
  creation,             \* the ProfileCreation page (src/unnamed/part_001)
  input                 \* one NumberInput: form field value, local text, focus

vars == <<FABRIC_EASE_CONFIGS, fit, derive, recommendation, profile,
          selectedSize, view, normalize, history, creation, input>>
forms == <<creation, input>>
page == <<recommendation, profile, selectedSize, view>>

----------------------------------------------------------------------------
(* Number representation *)

UnitsPerCm == 160
Cm == UnitsPerCm
Tenth == Cm \div 10        \* 0.1 cm
Grid == Cm \div 32         \* spacing of the input values, 1/32 cm

Abs(x) == IF x < 0 THEN -x ELSE x

\* Number.prototype.toFixed(1) followed by parseFloat: let n be the integer
\* for which n/10 - |x| is as close to zero as possible, the larger n if
\* there are two; the sign of x is put back in front.  "-0.0" parses to -0,
\* which compares and prints as 0.
ToFixed1Floor(x) ==
  (IF x < 0 THEN -1 ELSE 1) * Tenth * (Abs(x) \div Tenth)
ToFixed1(x) ==
  (IF x < 0 THEN -1 ELSE 1) * Tenth * ((Abs(x) + Tenth \div 2) \div Tenth)

----------------------------------------------------------------------------
(* Strings as character sequences *)

UpperChars == <<"A","B","C","D","E","F","G","H","I","J","K","L","M",
                "N","O","P","Q","R","S","T","U","V","W","X","Y","Z">>
LowerChars == <<"a","b","c","d","e","f","g","h","i","j","k","l","m",
                "n","o","p","q","r","s","t","u","v","w","x","y","z">>

CharToLower(c) ==
  IF \E i \in DOMAIN UpperChars : UpperChars[i] = c
    THEN LowerChars[CHOOSE i \in DOMAIN UpperChars : UpperChars[i] = c]
    ELSE c
CharToUpper(c) ==
  IF \E i \in DOMAIN LowerChars : LowerChars[i] = c
    THEN UpperChars[CHOOSE i \in DOMAIN LowerChars : LowerChars[i] = c]
    ELSE c

\* String.prototype.toLowerCase
toLowerCase(s) == [i \in DOMAIN s |-> CharToLower(s[i])]

\* String.prototype.includes
includes(s, sub) ==
  \E i \in 1..(Len(s) - Len(sub) + 1) : SubSeq(s, i, i + Len(sub) - 1) = sub

\* s.charAt(0).toUpperCase() + s.slice(1)
Capitalize(s) ==
  IF s = <<>> THEN <<>> ELSE <<CharToUpper(s[1])>> \o SubSeq(s, 2, Len(s))

perfect == <<"p","e","r","f","e","c","t">>
good    == <<"g","o","o","d">>
tight   == <<"t","i","g","h","t">>
loose   == <<"l","o","o","s","e">>

----------------------------------------------------------------------------
(* FABRIC_EASE_CONFIGS and calculateFitStatus *)

rigidConfigInverted ==
  [perfectMin |-> 4 * Cm, perfectMax |-> 2 * Cm,
   tightThreshold |-> 0, looseThreshold |-> 6 * Cm]
rigidConfig ==
  [perfectMin |-> 2 * Cm, perfectMax |-> 4 * Cm,
   tightThreshold |-> 0, looseThreshold |-> 6 * Cm]
normalConfigAsRigid ==
  [perfectMin |-> 2 * Cm, perfectMax |-> 4 * Cm,
   tightThreshold |-> -3 * Cm, looseThreshold |-> 4 * Cm]
normalConfig ==
  [perfectMin |-> (-3 * Cm) \div 2, perfectMax |-> 2 * Cm,
   tightThreshold |-> -3 * Cm, looseThreshold |-> 4 * Cm]
stretchyConfig ==
  [perfectMin |-> -4 * Cm, perfectMax |-> 1 * Cm,
   tightThreshold |-> -6 * Cm, looseThreshold |-> 3 * Cm]

FabricEaseConfigsInit ==
  [rigid |-> rigidConfig, normal |-> normalConfig, stretchy |-> stretchyConfig]

\* Property names every plain object inherits from Object.prototype: the
\* table is an object literal, so table[name] finds these too.
ObjectPrototypeKeys ==
  {"constructor", "toString", "valueOf", "hasOwnProperty", "__proto__",
   "isPrototypeOf", "propertyIsEnumerable", "toLocaleString"}

\* What an inherited property evaluates to: a truthy function or object
\* with none of the four band fields.
InheritedValue == [inherited |-> TRUE]

\* The argument when the caller passes undefined (recommendation.fabricType
\* absent): the parameter default "normal" applies.
UndefinedFabric == "<undefined>"

\* FABRIC_EASE_CONFIGS[fabricType] || FABRIC_EASE_CONFIGS.normal
ResolveConfig(table, fabricType) ==
  IF fabricType \in DOMAIN table THEN table[fabricType]
  ELSE IF fabricType \in ObjectPrototypeKeys THEN InheritedValue
  ELSE table.normal

\* difference >= config.f and so on: a missing field reads undefined, which
\* converts to NaN, and every comparison with NaN is false.
GreaterStrict(d, config, f) == f \in DOMAIN config /\ d > config[f]
GreaterEq(d, config, f) == f \in DOMAIN config /\ d >= config[f]
LessEq(d, config, f)    == f \in DOMAIN config /\ d <= config[f]
LessTightThreshold(d, config, f) ==
  "tightThreshold" \in DOMAIN config /\ d < config.tightThreshold
Less(d, config, f)      == f \in DOMAIN config /\ d < config[f]
GreaterLooseThreshold(d, config, f) ==
  "looseThreshold" \in DOMAIN config /\ d > config.looseThreshold
Greater(d, config, f)   == f \in DOMAIN config /\ d > config[f]

\* parseFloat((chartValue - userValue).toFixed(1))
DifferenceAbs(userValue, chartValue) == ToFixed1(Abs(chartValue - userValue))
DifferenceSwapped(userValue, chartValue) == ToFixed1(userValue - chartValue)
Difference(userValue, chartValue) == ToFixed1(chartValue - userValue)

calculateFitStatus(table, userValue, chartValue, fabricTypeArg) ==
  LET fabricType == IF fabricTypeArg = UndefinedFabric THEN "normal"
                    ELSE fabricTypeArg
      difference == Difference(userValue, chartValue)
      config == ResolveConfig(table, fabricType)
  IN  IF GreaterEq(difference, config, "perfectMin")
         /\ LessEq(difference, config, "perfectMax")
        THEN [status |-> perfect, difference |-> difference]
      ELSE IF Less(difference, config, "perfectMin")
        THEN [status |-> tight, difference |-> difference]
      ELSE IF Greater(difference, config, "perfectMax")
        THEN [status |-> loose, difference |-> difference]
      ELSE [status |-> good, difference |-> difference]

----------------------------------------------------------------------------
(* deriveActualConfidence *)

Perfect == <<"P","e","r","f","e","c","t">>
Good    == <<"G","o","o","d">>
Tight   == <<"T","i","g","h","t">>
Loose   == <<"L","o","o","s","e">>

\* measurementComparisons.length === 0
NoComparisonsNever(measurementComparisons) == FALSE
NoComparisonsUpToOne(measurementComparisons) == Len(measurementComparisons) <= 1
NoComparisons(measurementComparisons) == Len(measurementComparisons) = 0

\* measurementComparisons.some(m => m.status.toLowerCase().includes("tight"))
hasTightCaseSensitive(measurementComparisons) ==
  \E i \in DOMAIN measurementComparisons :
    includes(measurementComparisons[i].status, tight)
hasTight(measurementComparisons) ==
  \E i \in DOMAIN measurementComparisons :
    includes(toLowerCase(measurementComparisons[i].status), tight)

\* measurementComparisons.some(m => m.status.toLowerCase().includes("loose"))
hasLooseEvery(measurementComparisons) ==
  \A i \in DOMAIN measurementComparisons :
    includes(toLowerCase(measurementComparisons[i].status), loose)
hasLoose(measurementComparisons) ==
  \E i \in DOMAIN measurementComparisons :
    includes(toLowerCase(measurementComparisons[i].status), loose)

\* measurementComparisons.every(m => m.status.toLowerCase().includes("perfect"))
allPerfectSome(measurementComparisons) ==
  \E i \in DOMAIN measurementComparisons :
    includes(toLowerCase(measurementComparisons[i].status), perfect)
allPerfect(measurementComparisons) ==
  \A i \in DOMAIN measurementComparisons :
    includes(toLowerCase(measurementComparisons[i].status), perfect)

\* The closure reads measurementComparisons and recommendation.confidence.
deriveActualConfidenceLooseFirst(measurementComparisons, confidence) ==
  IF NoComparisons(measurementComparisons) THEN confidence
  ELSE IF hasLoose(measurementComparisons) THEN Loose
  ELSE IF hasTight(measurementComparisons) THEN Tight
  ELSE IF allPerfect(measurementComparisons) THEN Perfect
  ELSE Good
deriveActualConfidence(measurementComparisons, confidence) ==
  IF NoComparisons(measurementComparisons) THEN confidence
  ELSE IF hasTight(measurementComparisons) THEN Tight
  ELSE IF hasLoose(measurementComparisons) THEN Loose
  ELSE IF allPerfect(measurementComparisons) THEN Perfect
  ELSE Good

----------------------------------------------------------------------------
(* The Recommendations component: values, parsing, the two comparison loops *)

\* JavaScript values held by the size chart and the profile.
Num(n) == [type |-> "number", v |-> n]
Text == [type |-> "string", v |-> 0]
Null == [type |-> "object", v |-> 0]
Undefined == [type |-> "undefined", v |-> 0]

NoSize == "<null>"          \* selectedSize = null
NoData == [loaded |-> FALSE]

\* An object as the sequence of its own entries, in Object.entries order.
Get(obj, k) ==
  IF \E i \in DOMAIN obj : obj[i].key = k
    THEN obj[CHOOSE i \in DOMAIN obj : obj[i].key = k].value
    ELSE Undefined
Keys(obj) == [i \in DOMAIN obj |-> obj[i].key]

\* parseMeasurementComparisons(recommendation).sizeChartData: a string is
\* parsed, and replaced by {} when JSON.parse throws; anything else is kept.
parseSizeChartDataLenient(sizeChartData) ==
  IF sizeChartData.kind = "string"
    THEN [kind |-> "object", sizes |-> sizeChartData.sizes]
    ELSE sizeChartData
parseSizeChartData(sizeChartData) ==
  IF sizeChartData.kind = "string"
    THEN IF sizeChartData.valid
           THEN [kind |-> "object", sizes |-> sizeChartData.sizes]
           ELSE [kind |-> "object", sizes |-> <<>>]
    ELSE sizeChartData

\* sizeChartData?.[size] || {}
SizeMeasurements(sizeChartData, size) ==
  IF sizeChartData.kind = "object"
     /\ \E i \in DOMAIN sizeChartData.sizes : sizeChartData.sizes[i].key = size
    THEN Get(sizeChartData.sizes, size)
    ELSE <<>>

\* translateStatus, lines 204-221.  The result is the translation key that
\* is looked up, or the status itself.  measurementKey is <<>> when the
\* caller passes none, as at line 824 (undefined and "" are both falsy at
\* line 206).
short == <<"s","h","o","r","t">>
long == <<"l","o","n","g">>
LengthMeasurements ==
  {<<"i","n","s","e","a","m">>,
   <<"a","r","m","L","e","n","g","t","h">>,
   <<"l","e","g","L","e","n","g","t","h">>,
   <<"t","h","i","g","h","C","i","r","c","u","m","f","e","r","e","n","c","e">>}

translateStatus(status, measurementKey) ==
  LET statusLower == toLowerCase(status)
      isLengthMeasurement ==
        measurementKey # <<>> /\ measurementKey \in LengthMeasurements
  IN  IF includes(statusLower, perfect) THEN perfect
      ELSE IF includes(statusLower, good) THEN good
      ELSE IF isLengthMeasurement
        THEN IF includes(statusLower, loose) THEN long
             ELSE IF includes(statusLower, tight) THEN short
             ELSE status
      ELSE IF includes(statusLower, loose) THEN loose
      ELSE IF includes(statusLower, tight) THEN tight
      ELSE status

\* key.replace(/_./g, (match) => match.charAt(1).toUpperCase())
RECURSIVE replaceUnderscore(_)
replaceUnderscore(s) ==
  IF s = <<>> THEN <<>>
  ELSE IF s[1] = "_" /\ Len(s) >= 2
    THEN <<CharToUpper(s[2])>> \o replaceUnderscore(SubSeq(s, 3, Len(s)))
  ELSE <<s[1]>> \o replaceUnderscore(Tail(s))

userKeyUnchanged(key) == key
userKeyOf(key) ==
  IF includes(key, <<"_">>) THEN replaceUnderscore(key) ELSE key

sizeKey == <<"s","i","z","e">>

\* if (key === "size" || typeof chartValue !== "number") return;
SkippedEntryNumbersOnly(key, chartValue) == chartValue.type # "number"
SkippedEntry(key, chartValue) == key = sizeKey \/ chartValue.type # "number"

\* !selectedSize: null and the empty string are falsy.
Falsy(size) == size = NoSize \/ size = ""

\* The forEach over Object.entries(recommendedSizeMeasurements), lines
\* 491-515: the entries that pass both early returns, in chart order.
RECURSIVE CompareEntries(_, _, _, _)
CompareEntries(table, entries, prof, fabricType) ==
  IF entries = <<>> THEN <<>>
  ELSE
    LET key == entries[1].key
        chartValue == entries[1].value
        userValue == Get(prof, userKeyOf(key))
        rest == CompareEntries(table, Tail(entries), prof, fabricType)
    IN  IF SkippedEntry(key, chartValue) THEN rest
        ELSE IF userValue.type # "number" THEN rest
        ELSE
          LET r == calculateFitStatus(table, userValue.v, chartValue.v,
                                      fabricType)
          IN  <<[key |-> key, userValue |-> userValue.v,
                 chartValue |-> chartValue.v, difference |-> r.difference,
                 status |-> r.status]>> \o rest

\* status.charAt(0).toUpperCase() + status.slice(1), line 513
CapitalizeStatus(ms) == [i \in DOMAIN ms |-> [ms[i] EXCEPT !.status = Capitalize(@)]]

\* measurementComparisons, lines 467-516
measurementComparisonsOfSelected(table, rec, prof) ==
  LET sizeChartData == parseSizeChartData(rec.sizeChartData)
      row == SizeMeasurements(sizeChartData,
                              IF Falsy(selectedSize) THEN rec.recommendedSize
                              ELSE selectedSize)
  IN  IF prof.loaded /\ Len(row) > 0
        THEN CapitalizeStatus(CompareEntries(table, row, prof.fields,
                                             rec.fabricType))
        ELSE <<>>
measurementComparisonsOf(table, rec, prof) ==
  LET sizeChartData == parseSizeChartData(rec.sizeChartData)
      recommendedSizeMeasurements ==
        SizeMeasurements(sizeChartData, rec.recommendedSize)
  IN  IF prof.loaded /\ Len(recommendedSizeMeasurements) > 0
        THEN CapitalizeStatus(CompareEntries(table, recommendedSizeMeasurements,
                                             prof.fields, rec.fabricType))
        ELSE <<>>

\* overallFit, lines 737-745
overallFitSticky(fitDetails) ==
  IF Len(fitDetails) = 0 THEN <<"u","n","k","n","o","w","n">>
  ELSE IF \/ \E i \in DOMAIN fitDetails : fitDetails[i].status = tight
          \/ /\ view.screen = "recommendation"
             /\ view.sizeComparison.detail.shown
             /\ view.sizeComparison.detail.overallFit = tight
    THEN tight
  ELSE IF \A i \in DOMAIN fitDetails : fitDetails[i].status = perfect
    THEN perfect
  ELSE IF \E i \in DOMAIN fitDetails : fitDetails[i].status = loose
    THEN loose
  ELSE good
overallFitOf(fitDetails) ==
  IF Len(fitDetails) > 0
    THEN IF \A i \in DOMAIN fitDetails : fitDetails[i].status = perfect
           THEN perfect
         ELSE IF \E i \in DOMAIN fitDetails : fitDetails[i].status = tight
           THEN tight
         ELSE IF \E i \in DOMAIN fitDetails : fitDetails[i].status = loose
           THEN loose
         ELSE good
    ELSE <<"u","n","k","n","o","w","n">>

\* Math.floor(detail.chartValue * 0.95) and Math.ceil(detail.chartValue *
\* 1.05), line 824, in whole centimetres.  On the input grid the double
\* product is an integer exactly when the real product is, so floor and
\* ceil of the real product are what the code displays.
rangeMinOf(chartValue) == (chartValue * 95) \div (100 * Cm)
rangeMaxFloor(chartValue) == (chartValue * 105) \div (100 * Cm)
rangeMaxOf(chartValue) == -((-(chartValue * 105)) \div (100 * Cm))

NoComparison == [shown |-> FALSE]

\* The size comparison card, lines 660-849.
\* isRecommended, line 692
isRecommendedAnySelected(selected, rec) == ~Falsy(selected)
isRecommendedOf(selected, rec) == selected = rec.recommendedSize

sizeComparisonOf(table, rec, prof, selected) ==
  LET sizeChartData == parseSizeChartData(rec.sizeChartData)
      tabsShown == /\ sizeChartData.kind = "object"
                   /\ Len(sizeChartData.sizes) > 0
                   /\ prof.loaded
  IN  IF ~tabsShown THEN [tabs |-> <<>>, detail |-> NoComparison]
      ELSE
        [tabs |-> Keys(sizeChartData.sizes),
         detail |->
           IF ~Falsy(selected)
              /\ \E i \in DOMAIN sizeChartData.sizes :
                    sizeChartData.sizes[i].key = selected
             THEN
               LET fitDetails ==
                     CompareEntries(table, Get(sizeChartData.sizes, selected),
                                    prof.fields, rec.fabricType)
               IN  [shown |-> TRUE,
                    size |-> selected,
                    isRecommended |-> isRecommendedOf(selected, rec),
                    fitDetails |-> fitDetails,
                    ranges |->
                      [i \in DOMAIN fitDetails |->
                         [rangeMin |-> rangeMinOf(fitDetails[i].chartValue),
                          rangeMax |-> rangeMaxOf(fitDetails[i].chartValue)]],
                    statusLabels |->
                      [i \in DOMAIN fitDetails |->
                         translateStatus(fitDetails[i].status, <<>>)],
                    overallFit |-> overallFitOf(fitDetails)]
             ELSE NoComparison]

\* One render of Recommendations(), lines 380-876.
Render(table, rec, prof, selected) ==
  IF rec.isLoading THEN [screen |-> "loading"]
  ELSE IF ~rec.data.loaded THEN [screen |-> "notFound"]
  ELSE
    LET measurementComparisons ==
          measurementComparisonsOf(table, rec.data, prof)
    IN  [screen |-> "recommendation",
         recommendedSize |-> rec.data.recommendedSize,
         measurementComparisons |-> measurementComparisons,
         cardLabels |->
           [i \in DOMAIN measurementComparisons |->
              translateStatus(measurementComparisons[i].status,
                              measurementComparisons[i].key)],
         actualConfidence |->
           deriveActualConfidence(measurementComparisons, rec.data.confidence),
         sizeComparison |->
           sizeComparisonOf(table, rec.data, prof, selected)]

----------------------------------------------------------------------------
(* Bounds and input sets *)

MaxEase == 7          \* chart values lie within MaxEase cm of the user value
MaxVerdicts == 3      \* longest verdict list given to deriveActualConfidence
MaxKeyLen == 4        \* longest generated chart key
MaxRepeats == 2       \* repeated evaluations of a size that are counted

UserValues == {80 * Cm, 90 * Cm, 90 * Cm + 3 * Grid}
EaseValues == {e * Grid : e \in (-MaxEase * 32)..(MaxEase * 32)}
FabricTypes ==
  {"rigid", "normal", "stretchy", "silk", "", UndefinedFabric,
   "constructor", "toString"}

\* A confidence of the recommendation other than the four fit labels.
High == <<"H","i","g","h">>

\* Measurement names
chestKey      == <<"c","h","e","s","t">>
waistKey      == <<"w","a","i","s","t">>
hipKey        == <<"h","i","p">>
armLengthKey  == <<"a","r","m","L","e","n","g","t","h">>
arm_lengthKey == <<"a","r","m","_","l","e","n","g","t","h">>
idKey         == <<"i","d">>

Entry(k, v) == [key |-> k, value |-> v]

\* Profiles the profile query can return: numeric fields, null fields and
\* text fields.
ProfileFields ==
  { <<Entry(idKey, Text), Entry(chestKey, Num(90 * Cm)),
      Entry(waistKey, Num(80 * Cm)), Entry(hipKey, Num(98 * Cm)),
      Entry(armLengthKey, Num(60 * Cm)), Entry(sizeKey, Num(40 * Cm))>>,
    <<Entry(idKey, Text), Entry(chestKey, Num(90 * Cm + 3 * Grid)),
      Entry(waistKey, Null), Entry(hipKey, Null)>>,
    <<Entry(idKey, Text), Entry(chestKey, Null), Entry(waistKey, Null)>> }

\* Size charts: two sizes whose chest and waist lie e1 and e2 from the
\* first profile's values.
PageEases == {<<-5 * Cm, Cm>>, <<Cm, 2 * Cm + 2 * Grid>>, <<Cm, -Grid>>}
ChartOf(e1, e2) ==
  << Entry("M", << Entry(sizeKey, Text),
                   Entry(chestKey, Num(90 * Cm + e1)),
                   Entry(waistKey, Num(80 * Cm + e2)),
                   Entry(arm_lengthKey, Num(62 * Cm)) >>),
     Entry("L", << Entry(sizeKey, Num(40 * Cm)),
                   Entry(chestKey, Num(90 * Cm + e2)),
                   Entry(waistKey, Text),
                   Entry(hipKey, Num(100 * Cm)),
                   Entry(armLengthKey, Num(60 * Cm + e1)) >>) >>

\* A chart one of whose size labels is the empty string.
ChartWithEmptyLabel ==
  << Entry("M", << Entry(chestKey, Num(91 * Cm)) >>),
     Entry("", << Entry(chestKey, Num(96 * Cm)) >>) >>

\* recommendation.sizeChartData: an object, a JSON string of one, a string
\* that does not parse, or null.
SizeChartDatas ==
  {[kind |-> "object", sizes |-> ChartOf(e[1], e[2])] : e \in PageEases}
  \cup {[kind |-> "object", sizes |-> ChartWithEmptyLabel],
        [kind |-> "string", valid |-> TRUE, sizes |-> ChartOf(Cm, Cm)],
        [kind |-> "string", valid |-> FALSE, sizes |-> ChartOf(Cm, Cm)],
        [kind |-> "null"]}

PageSizes == {"M", "L", "XL"}      \* recommendation.recommendedSize
TabSizes == {"M", "L", ""}         \* the labels a size tab can carry
PageFabricTypes == {"normal", "rigid", "constructor"}
PageConfidences == {Good, High}

Recommendations ==
  {[loaded |-> TRUE, recommendedSize |-> sz, fabricType |-> f,
    confidence |-> c, sizeChartData |-> d] :
      sz \in PageSizes, f \in PageFabricTypes, c \in PageConfidences,
      d \in SizeChartDatas}

NoProfile == [loaded |-> FALSE, fields |-> <<>>]
Loading == [isLoading |-> TRUE, data |-> NoData]
IdlePage ==
  /\ recommendation = Loading
  /\ profile = NoProfile
  /\ selectedSize = NoSize
  /\ view = [screen |-> "loading"]

NoResult == [status |-> <<>>, difference |-> 0]
IdleFit ==
  [pc |-> "idle", userValue |-> 0, chartValue |-> 0,
   fabricType |-> "normal", result |-> NoResult]
IdleDerive ==
  [pc |-> "idle", measurementComparisons |-> <<>>, confidence |-> <<>>,
   result |-> <<>>]
IdleNormalize == [pc |-> "idle", key |-> <<>>, userKey |-> <<>>]
IdleCreation == [location |-> "idle"]
IdleInput == [pc |-> "idle"]
NoHistory ==
  [event |-> "none", clicked |-> FALSE, first |-> <<>>, repeats |-> 0]

----------------------------------------------------------------------------
(* SpecFit: calculateFitStatus applied to every input of the bounded sets *)

InitFit ==
  /\ FABRIC_EASE_CONFIGS = FabricEaseConfigsInit
  /\ \E u \in UserValues, e \in EaseValues, f \in FabricTypes :
       fit = [pc |-> "call", userValue |-> u, chartValue |-> u + e,
              fabricType |-> f, result |-> NoResult]
  /\ derive = IdleDerive
  /\ normalize = IdleNormalize
  /\ history = NoHistory
  /\ creation = IdleCreation
  /\ input = IdleInput
  /\ IdlePage

CallCalculateFitStatus ==
  /\ fit.pc = "call"
  /\ fit' = [fit EXCEPT
       !.pc = "return",
       !.result = calculateFitStatus(FABRIC_EASE_CONFIGS, fit.userValue,
                                     fit.chartValue, fit.fabricType)]
  /\ UNCHANGED <<forms, FABRIC_EASE_CONFIGS, derive, page, normalize, history>>

NextFit == CallCalculateFitStatus

SpecFit == InitFit /\ [][NextFit]_vars

----------------------------------------------------------------------------
(* SpecDerive: deriveActualConfidence applied to every verdict list of at  *)
(* most MaxVerdicts entries and every fallback confidence                  *)

\* The statuses measurementComparisons can hold: a status returned by
\* calculateFitStatus with its first letter capitalized (line 513).
ComparisonStatuses == {Capitalize(st) : st \in {perfect, good, tight, loose}}

Confidences == {Perfect, Good, Tight, Loose, High}

SeqsUpTo(S, n) == UNION {[1..k -> S] : k \in 0..n}

Comparison(st) ==
  [key |-> <<>>, userValue |-> 0, chartValue |-> 0, difference |-> 0,
   status |-> st]

InitDerive ==
  /\ FABRIC_EASE_CONFIGS = FabricEaseConfigsInit
  /\ fit = IdleFit
  /\ normalize = IdleNormalize
  /\ history = NoHistory
  /\ creation = IdleCreation
  /\ input = IdleInput
  /\ IdlePage
  /\ \E sts \in SeqsUpTo(ComparisonStatuses, MaxVerdicts), c \in Confidences :
       derive = [pc |-> "call",
                 measurementComparisons |->
                   [i \in DOMAIN sts |-> Comparison(sts[i])],
                 confidence |-> c, result |-> <<>>]

CallDeriveActualConfidence ==
  /\ derive.pc = "call"
  /\ derive' = [derive EXCEPT
       !.pc = "return",
       !.result = deriveActualConfidence(derive.measurementComparisons,
                                         derive.confidence)]
  /\ UNCHANGED <<forms, FABRIC_EASE_CONFIGS, fit, page, normalize, history>>

NextDerive == CallDeriveActualConfidence

SpecDerive == InitDerive /\ [][NextDerive]_vars

----------------------------------------------------------------------------
(* SpecKey: the normalization of a chart key (lines 495-499) applied to    *)
(* every key of at most MaxKeyLen characters over a small alphabet, and to *)
(* the measurement names of the charts                                     *)

KeyChars == {"a", "l", "_"}
ChartKeys ==
  SeqsUpTo(KeyChars, MaxKeyLen)
  \cup {chestKey, waistKey, hipKey, armLengthKey, arm_lengthKey, sizeKey}

InitKey ==
  /\ FABRIC_EASE_CONFIGS = FabricEaseConfigsInit
  /\ fit = IdleFit
  /\ derive = IdleDerive
  /\ history = NoHistory
  /\ creation = IdleCreation
  /\ input = IdleInput
  /\ IdlePage
  /\ \E k \in ChartKeys :
       normalize = [pc |-> "call", key |-> k, userKey |-> <<>>]

CallNormalizeKey ==
  /\ normalize.pc = "call"
  /\ normalize' = [normalize EXCEPT !.pc = "return",
                                    !.userKey = userKeyOf(normalize.key)]
  /\ UNCHANGED <<forms, FABRIC_EASE_CONFIGS, fit, derive, page, history>>

NextKey == CallNormalizeKey

SpecKey == InitKey /\ [][NextKey]_vars

----------------------------------------------------------------------------
(* Spec: the Recommendations page *)

Init ==
  /\ FABRIC_EASE_CONFIGS = FabricEaseConfigsInit
  /\ fit = IdleFit
  /\ derive = IdleDerive
  /\ normalize = IdleNormalize
  /\ history = NoHistory
  /\ creation = IdleCreation
  /\ input = IdleInput
  /\ recommendation = Loading
  /\ profile = NoProfile
  /\ selectedSize = NoSize
  /\ view = Render(FABRIC_EASE_CONFIGS, recommendation, profile, selectedSize)

Rerender ==
  view' = Render(FABRIC_EASE_CONFIGS', recommendation', profile', selectedSize')

\* The recommendation query settles, or settles again after a refetch.
RecommendationLoaded(r) ==
  /\ recommendation' = [isLoading |-> FALSE, data |-> r]
  /\ UNCHANGED <<forms, FABRIC_EASE_CONFIGS, fit, derive, normalize, profile, selectedSize>>
  /\ Rerender

\* The recommendation query ends without data.
RecommendationMissing ==
  /\ recommendation.isLoading
  /\ recommendation' = [isLoading |-> FALSE, data |-> NoData]
  /\ UNCHANGED <<forms, FABRIC_EASE_CONFIGS, fit, derive, normalize, profile, selectedSize>>
  /\ Rerender

\* The profile query (enabled: !!recommendation) settles.
ProfileLoaded(fields) ==
  /\ recommendation.data.loaded
  /\ profile' = [loaded |-> TRUE, fields |-> fields]
  /\ UNCHANGED <<forms, FABRIC_EASE_CONFIGS, fit, derive, normalize, recommendation, selectedSize>>
  /\ Rerender

\* useEffect, lines 401-405
DefaultSelectedSize ==
  /\ recommendation.data.loaded
  /\ Falsy(selectedSize)
  /\ selectedSize' = recommendation.data.recommendedSize
  /\ UNCHANGED <<forms, FABRIC_EASE_CONFIGS, fit, derive, normalize, recommendation, profile>>
  /\ Rerender

\* onClick of a size tab, line 671
SelectSize(size) ==
  /\ view.screen = "recommendation"
  /\ \E i \in DOMAIN view.sizeComparison.tabs :
       view.sizeComparison.tabs[i] = size
  /\ selectedSize' = size
  /\ UNCHANGED <<forms, FABRIC_EASE_CONFIGS, fit, derive, normalize, recommendation, profile>>
  /\ Rerender

Next ==
  \/ \E r \in Recommendations : RecommendationLoaded(r) /\ UNCHANGED history
  \/ RecommendationMissing /\ UNCHANGED history
  \/ \E fields \in ProfileFields : ProfileLoaded(fields) /\ UNCHANGED history
  \/ DefaultSelectedSize /\ UNCHANGED history
  \/ \E size \in TabSizes : SelectSize(size) /\ UNCHANGED history

Spec == Init /\ [][Next]_vars

----------------------------------------------------------------------------
(* The ProfileCreation page, src/unnamed/part_001 lines 161-345 *)

MaxSubmits == 2       \* form submissions in one behaviour

ProfileNotFound == <<"P","r","o","f","i","l","e"," ","n","o","t"," ","f","o","u","n","d">>
NotFound404 == <<"4","0","4">>
FailedToUpdate == <<"F","a","i","l","e","d"," ","t","o"," ","u","p","d","a","t","e"," ","p","r","o","f","i","l","e">>
FailedToCreate == <<"F","a","i","l","e","d"," ","t","o"," ","c","r","e","a","t","e"," ","p","r","o","f","i","l","e">>

\* error.message of a rejected request
ErrorMessages ==
  {<<"4","0","4",":"," ","N","o","t"," ","F","o","u","n","d">>,
   <<"P","r","o","f","i","l","e"," ","n","o","t"," ","f","o","u","n","d">>,
   <<"p","r","o","f","i","l","e"," ","n","o","t"," ","f","o","u","n","d">>,
   <<"5","0","0",":"," ","I","n","t","e","r","n","a","l"," ","S","e","r","v","e","r"," ","E","r","r","o","r">>,
   <<>>}

FormDatas == {"v1", "v2"}          \* values of the form, as a whole
ProfileIds == {"p1", ""}           \* "" stands for a missing or empty id
NotFetched == [kind |-> "undefined"]
NoExistingProfile == [kind |-> "null"]
ExistingProfiles ==
  {NoExistingProfile}
    \cup {[kind |-> "profile", id |-> i, data |-> "v1"] : i \in ProfileIds}

\* existingProfile && existingProfile.id, lines 241 and 336
submitUpdatesInEditMode(isEditMode, existingProfile) ==
  isEditMode /\ existingProfile.kind = "profile"
submitUpdates(isEditMode, existingProfile) ==
  existingProfile.kind = "profile" /\ existingProfile.id # ""

\* error.message || "Failed to update profile", line 316
errorMessageOf(message) == IF message = <<>> THEN FailedToUpdate ELSE message

\* errorMessage.includes("Profile not found") || errorMessage.includes("404")
isNotFoundOnly404(errorMessage) == includes(errorMessage, NotFound404)
isNotFound(errorMessage) ==
  includes(errorMessage, ProfileNotFound) \/ includes(errorMessage, NotFound404)

Put(id, data) == [method |-> "PUT", profileId |-> id, data |-> data]
Post(data) == [method |-> "POST", profileId |-> "", data |-> data]
ErrorToast(description) == [variant |-> "destructive", description |-> description]
SuccessToast(title) == [variant |-> "default", description |-> title]

Remove(seq, i) == SubSeq(seq, 1, i - 1) \o SubSeq(seq, i + 1, Len(seq))
Issue(c, request) ==
  [c EXCEPT !.requests = Append(@, request), !.pending = Append(@, request)]

InitProfile ==
  /\ FABRIC_EASE_CONFIGS = FabricEaseConfigsInit
  /\ fit = IdleFit
  /\ derive = IdleDerive
  /\ normalize = IdleNormalize
  /\ history = NoHistory
  /\ input = IdleInput
  /\ IdlePage
  /\ \E isEditMode \in BOOLEAN :
       creation = [location |-> "/profile", isEditMode |-> isEditMode,
                   existingProfile |-> NotFetched, formValues |-> "v2",
                   submits |-> 0, requests |-> <<>>, pending |-> <<>>,
                   toasts |-> <<>>, event |-> "mount", error |-> <<>>]

Others == <<FABRIC_EASE_CONFIGS, fit, derive, normalize, history, input, page>>

\* useQuery(["/api/profile"]) settles, lines 175-208, and the effect of
\* lines 240-259 resets the form to a profile that has an id.
ExistingProfileFetched(p) ==
  /\ creation.location = "/profile"
  /\ creation' = [creation EXCEPT
       !.existingProfile = p,
       !.formValues = IF p.kind = "profile" /\ p.id # "" THEN p.data ELSE @,
       !.event = "fetch"]
  /\ UNCHANGED Others

\* the user edits the form
EditForm(data) ==
  /\ creation.location = "/profile"
  /\ creation.formValues # data
  /\ creation' = [creation EXCEPT !.formValues = data, !.event = "edit"]
  /\ UNCHANGED Others

\* onSubmit, lines 332-344
onSubmit ==
  /\ creation.location = "/profile"
  /\ creation.submits < MaxSubmits
  /\ LET data == creation.formValues
         request ==
           IF submitUpdates(creation.isEditMode, creation.existingProfile)
             THEN Put(creation.existingProfile.id, data)
             ELSE Post(data)
     IN  creation' = [Issue(creation, request) EXCEPT
                        !.submits = @ + 1, !.event = "submit"]
  /\ UNCHANGED Others

\* updateProfileMutation.onSuccess, lines 305-313
UpdateSucceeds(i) ==
  /\ creation.pending[i].method = "PUT"
  /\ creation' = [creation EXCEPT
       !.pending = Remove(@, i),
       !.toasts = Append(@, SuccessToast("profile.profileUpdated")),
       !.location = "/dashboard",
       !.event = "updateSuccess"]
  /\ UNCHANGED Others

\* updateProfileMutation.onError, lines 314-329
UpdateFails(i, message) ==
  /\ creation.pending[i].method = "PUT"
  /\ LET errorMessage == errorMessageOf(message)
         settled == [creation EXCEPT !.pending = Remove(@, i),
                                     !.event = "updateError",
                                     !.error = message]
     IN  creation' =
           IF isNotFound(errorMessage)
             THEN Issue(settled, Post(creation.formValues))
             ELSE [settled EXCEPT !.toasts = Append(@, ErrorToast(errorMessage))]
  /\ UNCHANGED Others

\* createProfileMutation.onSuccess, lines 269-276
CreateSucceeds(i) ==
  /\ creation.pending[i].method = "POST"
  /\ creation' = [creation EXCEPT
       !.pending = Remove(@, i),
       !.toasts = Append(@, SuccessToast("profile.profileCreated")),
       !.location = "/dashboard",
       !.event = "createSuccess"]
  /\ UNCHANGED Others

\* createProfileMutation.onError, lines 277-283
CreateFails(i, message) ==
  /\ creation.pending[i].method = "POST"
  /\ creation' = [creation EXCEPT
       !.pending = Remove(@, i),
       !.toasts = Append(@, ErrorToast(IF message = <<>> THEN FailedToCreate
                                                          ELSE message)),
       !.event = "createError",
       !.error = message]
  /\ UNCHANGED Others

NextProfile ==
  \/ \E p \in ExistingProfiles : ExistingProfileFetched(p)
  \/ \E data \in FormDatas : EditForm(data)
  \/ onSubmit
  \/ \E i \in DOMAIN creation.pending : UpdateSucceeds(i)
  \/ \E i \in DOMAIN creation.pending, m \in ErrorMessages : UpdateFails(i, m)
  \/ \E i \in DOMAIN creation.pending : CreateSucceeds(i)
  \/ \E i \in DOMAIN creation.pending, m \in ErrorMessages : CreateFails(i, m)

SpecProfile == InitProfile /\ [][NextProfile]_vars

----------------------------------------------------------------------------
(* NumberInput, src/unnamed/part_001 lines 44-163.  A form field value is  *)
(* undefined or a number; the numbers that occur are non-negative integers *)
(* and are kept as their decimal digits, because they exceed machine       *)
(* integers.  The texts offered to onChange are chosen so that the integer *)
(* they denote is an exactly representable double (at most 15 digits, or   *)
(* 10^21), so parseInt returns that integer exactly.                       *)

Digits == {"0","1","2","3","4","5","6","7","8","9"}
NoValue == [type |-> "undefined", digits |-> <<>>]
NaN == [type |-> "NaN", digits |-> <<>>]
Integer(digits) == [type |-> "number", digits |-> digits]

\* Number::toString switches to exponent notation from 10^21 on.
ExponentFrom == 21

RECURSIVE DecimalDigits(_)
DecimalDigits(k) ==
  LET d == <<"0","1","2","3","4","5","6","7","8","9">>[(k % 10) + 1]
  IN  IF k < 10 THEN <<d>> ELSE Append(DecimalDigits(k \div 10), d)

RECURSIVE StripLeadingZeros(_)
StripLeadingZeros(t) ==
  IF Len(t) > 1 /\ t[1] = "0" THEN StripLeadingZeros(Tail(t)) ELSE t
RECURSIVE StripTrailingZeros(_)
StripTrailingZeros(t) ==
  IF Len(t) > 1 /\ t[Len(t)] = "0"
    THEN StripTrailingZeros(SubSeq(t, 1, Len(t) - 1)) ELSE t

\* rawValue.replace(/[^0-9]/g, '')
digitsOnlyOf(t) == SelectSeq(t, LAMBDA c : c \in Digits)

\* e.target.value.trim()
RECURSIVE trim(_)
trim(t) ==
  IF t # <<>> /\ t[1] = " " THEN trim(Tail(t))
  ELSE IF t # <<>> /\ t[Len(t)] = " " THEN trim(SubSeq(t, 1, Len(t) - 1))
  ELSE t

\* parseInt(digitsOnly, 10) of a text of digits
parseInt(t) == IF t = <<>> THEN NaN ELSE Integer(StripLeadingZeros(t))

\* String(numValue)
String(n) ==
  IF Len(n.digits) <= ExponentFrom THEN n.digits
  ELSE LET mantissa == StripTrailingZeros(n.digits) IN
         <<mantissa[1]>>
           \o (IF Len(mantissa) > 1 THEN <<".">> \o Tail(mantissa) ELSE <<>>)
           \o <<"e", "+">> \o DecimalDigits(Len(n.digits) - 1)

\* field.value === null || field.value === undefined ? "" : String(field.value)
formValueText(value) == IF value.type = "undefined" THEN <<>> ELSE String(value)

InitialValues == {NoValue, Integer(<<"0">>), Integer(<<"4","2">>)}
RawValues ==
  {<<>>, <<"7">>, <<"0","0","7">>, <<"4","a","2">>, <<"a">>, <<"-","5">>,
   <<"1",".","5">>, <<" ","1","2"," ">>,
   <<"1">> \o [i \in 1..21 |-> "0"]}
PressedKeys ==
  {<<"B","a","c","k","s","p","a","c","e">>, <<"E","n","t","e","r">>, <<"v">>,
   <<"5">>, <<"-">>, <<"e">>, <<"V">>}
allowedKeys ==
  {<<"B","a","c","k","s","p","a","c","e">>, <<"D","e","l","e","t","e">>, <<"T","a","b">>, <<"E","s","c","a","p","e">>,
   <<"E","n","t","e","r">>, <<"A","r","r","o","w","L","e","f","t">>, <<"A","r","r","o","w","R","i","g","h","t">>, <<"A","r","r","o","w","U","p">>,
   <<"A","r","r","o","w","D","o","w","n">>, <<"H","o","m","e">>, <<"E","n","d">>}

\* the effect of lines 59-64, run after a render in which field.value or
\* isFocused changed
SyncLocalValue(before, after) ==
  IF (after.value # before.value \/ after.isFocused # before.isFocused)
     /\ ~after.isFocused
    THEN [after EXCEPT !.localValue = formValueText(after.value)]
    ELSE after

InitInput ==
  /\ FABRIC_EASE_CONFIGS = FabricEaseConfigsInit
  /\ fit = IdleFit
  /\ derive = IdleDerive
  /\ normalize = IdleNormalize
  /\ history = NoHistory
  /\ creation = IdleCreation
  /\ IdlePage
  /\ \E v \in InitialValues :
       input = [pc |-> "mounted", value |-> v, localValue |-> formValueText(v),
                isFocused |-> FALSE, event |-> "mount", prevented |-> FALSE]

NotInput ==
  <<FABRIC_EASE_CONFIGS, fit, derive, normalize, history, creation, page>>

\* the state after a handler and the render that follows it
Handled(event, after) ==
  SyncLocalValue(input, [after EXCEPT !.event = event, !.prevented = FALSE])

\* onFocus, line 74
onFocus ==
  /\ input' = Handled("focus", [input EXCEPT !.isFocused = TRUE])
  /\ UNCHANGED NotInput

\* onChange, lines 75-106
onChange(rawValue) ==
  LET digitsOnly == digitsOnlyOf(rawValue)
      numValue == parseInt(digitsOnly)
  IN  /\ input' = Handled("change",
           IF rawValue = <<>>
             THEN [input EXCEPT !.localValue = <<>>, !.value = NoValue]
           ELSE IF digitsOnly = rawValue \/ digitsOnly # <<>>
             THEN [input EXCEPT
                     !.localValue = digitsOnly,
                     !.value = IF numValue.type # "NaN" THEN numValue ELSE @]
           ELSE input)
      /\ UNCHANGED NotInput

\* onBlur, lines 107-134; e.target.value is the controlled value localValue
onBlur ==
  LET value == trim(input.localValue)
      digitsOnly == digitsOnlyOf(value)
      numValue == parseInt(digitsOnly)
      blurred == [input EXCEPT !.isFocused = FALSE]
  IN  /\ input' = Handled("blur",
           IF value = <<>> \/ digitsOnly = <<>>
             THEN [blurred EXCEPT !.localValue = <<>>, !.value = NoValue]
           ELSE IF numValue.type # "NaN"
             THEN [blurred EXCEPT !.localValue = String(numValue),
                                  !.value = numValue]
           ELSE [blurred EXCEPT !.localValue = formValueText(input.value)])
      /\ UNCHANGED NotInput

\* onKeyDown, lines 135-159: e.preventDefault() for a key that is neither
\* a shortcut, nor an allowed key, nor a digit
onKeyDown(key, ctrlOrMeta) ==
  /\ input' = [input EXCEPT
       !.event = "keydown",
       !.prevented =
         ~ \/ ctrlOrMeta /\ toLowerCase(key) \in {<<"a">>, <<"c">>, <<"v">>, <<"x">>}
           \/ key \in allowedKeys
           \/ Len(key) = 1 /\ key[1] \in Digits]
  /\ UNCHANGED NotInput

\* form.reset(...) of ProfileCreation changes field.value from outside
FormReset(v) ==
  /\ input.value # v
  /\ input' = Handled("reset", [input EXCEPT !.value = v])
  /\ UNCHANGED NotInput

NextInput ==
  \/ onFocus
  \/ \E rawValue \in RawValues : onChange(rawValue)
  \/ onBlur
  \/ \E key \in PressedKeys, ctrlOrMeta \in BOOLEAN : onKeyDown(key, ctrlOrMeta)
  \/ \E v \in InitialValues : FormReset(v)

SpecInput == InitInput /\ [][NextInput]_vars

----------------------------------------------------------------------------
(* SpecEval: the page with an observer.  history records which handler ran *)
(* last, whether the user has clicked a size tab, and the size comparison  *)
(* computed the first time each size was evaluated since the recommendation *)
(* or the profile last changed; repeats counts the later evaluations of a  *)
(* size already recorded, up to MaxRepeats.                                *)

EvalRecommendations ==
  {[loaded |-> TRUE, recommendedSize |-> sz, fabricType |-> f,
    confidence |-> High, sizeChartData |-> [kind |-> "object", sizes |-> c]] :
      sz \in {"M", "XL"}, f \in {"normal", "rigid"},
      c \in {ChartOf(-5 * Cm, Cm), ChartWithEmptyLabel}}

Evaluated(v) == v.screen = "recommendation" /\ v.sizeComparison.detail.shown
Recorded(first, size) == \E j \in DOMAIN first : first[j].size = size

Observe(event, inputsChanged) ==
  LET before == IF inputsChanged THEN <<>> ELSE history.first
      count == IF inputsChanged THEN 0 ELSE history.repeats
      d == view'.sizeComparison.detail
  IN  history' =
        [event |-> event,
         clicked |-> history.clicked \/ event = "click",
         first |->
           IF Evaluated(view') /\ ~Recorded(before, d.size)
             THEN Append(before, [size |-> d.size, detail |-> d])
             ELSE before,
         repeats |->
           IF Evaluated(view') /\ Recorded(before, d.size)
                /\ count < MaxRepeats
             THEN count + 1
             ELSE count]

EvalRecommendationLoaded(r) ==
  RecommendationLoaded(r) /\ Observe("recommendation", TRUE)
EvalProfileLoaded(fields) ==
  ProfileLoaded(fields) /\ Observe("profile", TRUE)
EvalDefaultSelectedSize ==
  DefaultSelectedSize /\ Observe("effect", FALSE)
EvalSelectSize(size) ==
  SelectSize(size) /\ Observe("click", FALSE)

NextEval ==
  \/ \E r \in EvalRecommendations : EvalRecommendationLoaded(r)
  \/ \E fields \in ProfileFields : EvalProfileLoaded(fields)
  \/ EvalDefaultSelectedSize
  \/ \E size \in TabSizes : EvalSelectSize(size)

SpecEval == Init /\ [][NextEval]_vars

----------------------------------------------------------------------------
(* Properties of calculateFitStatus, checked under SpecFit *)

Returned == fit.pc = "return"
Ease == fit.chartValue - fit.userValue      \* the exact chartValue - userValue
Status == fit.result.status
Diff == fit.result.difference

RecognizedFabrics == {"rigid", "normal", "stretchy"}

\* The band the lookup of line 290 yields, where it yields one: the named
\* band for a recognized fabric, the normal band for a name the table object
\* has no property for.
YieldsBand(f) == f \in RecognizedFabrics \/ f \notin ObjectPrototypeKeys
BandOf(f) ==
  IF f \in RecognizedFabrics THEN FABRIC_EASE_CONFIGS[f]
  ELSE FABRIC_EASE_CONFIGS.normal

\* d is x rounded to one decimal place, a tie going away from zero.
IsRound1(d, x) ==
  /\ d % Tenth = 0
  /\ 2 * Abs(d - x) <= Tenth
  /\ (2 * Abs(d - x) = Tenth => Abs(d) > Abs(x))
OneDecimalValues == {k * Tenth : k \in (-10 * (MaxEase + 1))..(10 * (MaxEase + 1))}

\* C1 as stated: the category is decided by the exact, unrounded
\* chartValue - userValue: perfect iff perfectMin <= c-u <= perfectMax,
\* otherwise tight iff c-u < perfectMin, otherwise loose (taken over the
\* fabric types for which the lookup yields a band).
C1_ExactEaseDecides ==
  (Returned /\ YieldsBand(fit.fabricType)) =>
    LET b == BandOf(fit.fabricType) IN
      /\ Status = perfect <=> (b.perfectMin <= Ease /\ Ease <= b.perfectMax)
      /\ Status = tight <=> Ease < b.perfectMin
      /\ Status = loose <=> Ease > b.perfectMax

\* C1 amended: the category is decided by chartValue - userValue rounded to
\* one decimal place: perfect iff perfectMin <= round1(c-u) <= perfectMax,
\* otherwise tight iff round1(c-u) < perfectMin, otherwise loose.
C1_RoundedEaseDecides ==
  (Returned /\ YieldsBand(fit.fabricType)) =>
    \E d \in OneDecimalValues :
      LET b == BandOf(fit.fabricType) IN
        /\ IsRound1(d, Ease)
        /\ Status = perfect <=> (b.perfectMin <= d /\ d <= b.perfectMax)
        /\ Status = tight <=> d < b.perfectMin
        /\ Status = loose <=> d > b.perfectMax

\* An exact ease just above perfectMax that rounds down onto it: the call
\* has returned perfect although c-u > perfectMax.
C1_Witness ==
  /\ Returned
  /\ fit.fabricType = "normal"
  /\ Ease = 2 * Cm + Grid
  /\ Status = perfect

\* C7 as stated: the difference is chartValue - userValue rounded to one
\* decimal place, positive exactly when chartValue > userValue and negative
\* exactly when chartValue < userValue.
C7_SignExactlyFollowsEase ==
  Returned =>
    /\ IsRound1(Diff, Ease)
    /\ Diff > 0 <=> fit.chartValue > fit.userValue
    /\ Diff < 0 <=> fit.chartValue < fit.userValue

\* C7 amended: the difference is chartValue - userValue rounded to one
\* decimal place (a tie away from zero); it is positive exactly when
\* c-u >= 0.05, negative exactly when c-u <= -0.05 and zero in between, so
\* it never has the sign opposite to c-u.
C7_RoundedSignedDifference ==
  Returned =>
    /\ IsRound1(Diff, Ease)
    /\ Diff > 0 <=> 2 * Ease >= Tenth
    /\ Diff < 0 <=> 2 * Ease <= -Tenth
    /\ Diff = 0 <=> 2 * Abs(Ease) < Tenth

\* A garment 1/32 cm smaller than the body: the difference returned is 0.
C7_Witness ==
  /\ Returned
  /\ Ease = -Grid
  /\ Diff = 0

\* C8: on the rounded difference d the boundaries are inclusive: for each
\* of the three bands d = perfectMin and d = perfectMax give perfect, every
\* d < perfectMin gives tight and every d > perfectMax gives loose.
C8_InclusiveBoundaries ==
  (Returned /\ fit.fabricType \in RecognizedFabrics) =>
    LET b == FABRIC_EASE_CONFIGS[fit.fabricType] IN
      /\ (Diff = b.perfectMin \/ Diff = b.perfectMax) => Status = perfect
      /\ Diff < b.perfectMin => Status = tight
      /\ Diff > b.perfectMax => Status = loose

\* A rigid garment whose rounded difference is exactly perfectMin = 2.0.
C8_Witness ==
  /\ Returned
  /\ fit.fabricType = "rigid"
  /\ Diff = FABRIC_EASE_CONFIGS.rigid.perfectMin
  /\ Ease # Diff
  /\ Status = perfect

\* C9 as stated: every fabricType that is not rigid, normal or stretchy is
\* classified exactly as fabric normal is.
C9_UnknownFabricIsNormal ==
  (Returned /\ fit.fabricType \notin RecognizedFabrics) =>
    LET b == FABRIC_EASE_CONFIGS.normal IN
      /\ Status = perfect <=> (b.perfectMin <= Diff /\ Diff <= b.perfectMax)
      /\ Status = tight <=> Diff < b.perfectMin
      /\ Status = loose <=> Diff > b.perfectMax

----------------------------------------------------------------------------
(* Properties of deriveActualConfidence, checked under SpecDerive *)

Derived == derive.pc = "return"
Verdicts == derive.measurementComparisons
AnyVerdict(st) == \E i \in DOMAIN Verdicts : Verdicts[i].status = st
EveryVerdict(st) == \A i \in DOMAIN Verdicts : Verdicts[i].status = st

\* C2: whenever at least one verdict is tight the result is "Tight",
\* whatever the other verdicts and the fallback confidence are.
C2_AnyTightGivesTight ==
  (Derived /\ AnyVerdict(Tight)) => derive.result = Tight

\* Two perfect verdicts and a loose one before a single tight one, with a
\* fallback that says Perfect.
C2_Witness ==
  /\ Derived
  /\ Len(Verdicts) = MaxVerdicts
  /\ Verdicts[1].status = Perfect
  /\ Verdicts[2].status = Loose
  /\ Verdicts[Len(Verdicts)].status = Tight
  /\ derive.confidence = Perfect
  /\ derive.result = Tight

\* C3: a non-empty list with no tight verdict and at least one loose
\* verdict gives "Loose".
C3_LooseWithoutTightGivesLoose ==
  (Derived /\ Verdicts # <<>> /\ ~AnyVerdict(Tight) /\ AnyVerdict(Loose))
    => derive.result = Loose

\* perfect, loose, good (section 8 of the specification).
C3_Witness ==
  /\ Derived
  /\ Len(Verdicts) = 3
  /\ Verdicts[1].status = Perfect
  /\ Verdicts[2].status = Loose
  /\ Verdicts[3].status = Good
  /\ derive.result = Loose

\* C4: for a non-empty list the result is "Perfect" only when every verdict
\* is perfect, and it is "Good" for every other list with neither a tight
\* nor a loose verdict.
C4_PerfectOnlyIfAllPerfectElseGood ==
  (Derived /\ Verdicts # <<>>) =>
    /\ derive.result = Perfect => EveryVerdict(Perfect)
    /\ (~EveryVerdict(Perfect) /\ ~AnyVerdict(Tight) /\ ~AnyVerdict(Loose))
         => derive.result = Good

\* perfect, good gives Good.
C4_Witness ==
  /\ Derived
  /\ Len(Verdicts) = 2
  /\ Verdicts[1].status = Perfect
  /\ Verdicts[2].status = Good
  /\ derive.result = Good

\* C5: for the empty verdict list the result is the supplied confidence,
\* unchanged.
C5_EmptyGivesFallback ==
  (Derived /\ Verdicts = <<>>) => derive.result = derive.confidence

\* The empty list with a fallback outside the four labels.
C5_Witness ==
  /\ Derived
  /\ Verdicts = <<>>
  /\ derive.confidence = High
  /\ derive.result = High

----------------------------------------------------------------------------
(* Properties of the page, checked under Spec *)

Shown == view.screen = "recommendation"
FourLabels == {Perfect, Good, Tight, Loose}

\* C6 as stated: for every input the overall confidence handed to the UI
\* is one of Perfect, Good, Tight, Loose.
C6_ConfidenceIsOneOfFour ==
  Shown => view.actualConfidence \in FourLabels

\* C6 amended: the overall confidence handed to the UI is one of Perfect,
\* Good, Tight, Loose whenever at least one measurement comparison was
\* produced for the recommended size; when none was produced it is
\* recommendation.confidence, whatever string that is.
C6_FourLabelsOrFallback ==
  Shown =>
    IF view.measurementComparisons # <<>>
      THEN view.actualConfidence \in FourLabels
      ELSE view.actualConfidence = recommendation.data.confidence

\* A single comparison, a fallback outside the four labels, and a derived
\* label among the four.
C6_Witness ==
  /\ Shown
  /\ Len(view.measurementComparisons) = 1
  /\ recommendation.data.confidence = High
  /\ view.actualConfidence \in FourLabels

\* C10: every band satisfies tightThreshold <= perfectMin <= perfectMax <=
\* looseThreshold, the table holds rigid (2, 4, 0, 6), normal (-1.5, 2, -3,
\* 4), stretchy (-4, 1, -6, 3) for (perfectMin, perfectMax, tightThreshold,
\* looseThreshold), and no operation changes it.
Band(pmin, pmax, tt, lt) ==
  [perfectMin |-> pmin * Tenth, perfectMax |-> pmax * Tenth,
   tightThreshold |-> tt * Tenth, looseThreshold |-> lt * Tenth]
C10_TableOrderedAndFixed ==
  /\ DOMAIN FABRIC_EASE_CONFIGS = RecognizedFabrics
  /\ \A f \in DOMAIN FABRIC_EASE_CONFIGS :
       LET b == FABRIC_EASE_CONFIGS[f] IN
         /\ b.tightThreshold <= b.perfectMin
         /\ b.perfectMin <= b.perfectMax
         /\ b.perfectMax <= b.looseThreshold
  /\ FABRIC_EASE_CONFIGS.rigid = Band(20, 40, 0, 60)
  /\ FABRIC_EASE_CONFIGS.normal = Band(-15, 20, -30, 40)
  /\ FABRIC_EASE_CONFIGS.stretchy = Band(-40, 10, -60, 30)

\* The table after the page has classified measurements with it.
C10_Witness ==
  /\ Shown
  /\ view.measurementComparisons # <<>>
  /\ view.sizeComparison.detail.shown
  /\ FABRIC_EASE_CONFIGS.normal.perfectMin = -15 * Tenth

----------------------------------------------------------------------------
(* The thresholds that calculateFitStatus does not read (SpecFit) *)

\* Values given to tightThreshold and looseThreshold in the second table:
\* below, inside and above every perfect range.
ThresholdSamples == {-8 * Cm, -2 * Cm, 0, 3 * Cm, 8 * Cm}

\* The tables that differ from FABRIC_EASE_CONFIGS in those two fields only.
ThresholdVariants ==
  {[f \in DOMAIN FABRIC_EASE_CONFIGS |->
      [FABRIC_EASE_CONFIGS[f] EXCEPT !.tightThreshold = tt,
                                     !.looseThreshold = lt]] :
     tt, lt \in ThresholdSamples}

----------------------------------------------------------------------------
(* Properties of the key normalization, checked under SpecKey *)

Normalized == normalize.pc = "return"
separator == <<"_">>

\* C12: before the profile lookup every chart key is normalized by
\* removing each underscore separator and capitalizing the character that
\* follows it (arm_length becomes armLength); for every chart key the
\* normalized key contains no separator.
C12_NormalizedKeyHasNoSeparator ==
  Normalized =>
    /\ normalize.key = arm_lengthKey => normalize.userKey = armLengthKey
    /\ ~includes(normalize.userKey, separator)

----------------------------------------------------------------------------
(* Which chart entries become verdicts (Spec) *)

\* The profile field a chart key of the model's charts stands for.
ProfileFieldFor(key) == IF key = arm_lengthKey THEN armLengthKey ELSE key

ParsedChart == parseSizeChartData(recommendation.data.sizeChartData)
RecommendedRow ==
  SizeMeasurements(ParsedChart, recommendation.data.recommendedSize)
SelectedRow == SizeMeasurements(ParsedChart, selectedSize)
DetailShown == Shown /\ view.sizeComparison.detail.shown

Excluded(e) == e.key = sizeKey \/ e.value.type # "number"
Matched(e) ==
  /\ ~Excluded(e)
  /\ profile.loaded
  /\ Get(profile.fields, ProfileFieldFor(e.key)).type = "number"

HasVerdict(verdicts, k) == \E j \in DOMAIN verdicts : verdicts[j].key = k

ExcludedSkippedOthersEvaluated(verdicts, row) ==
  \A i \in DOMAIN row :
    /\ Excluded(row[i]) => ~HasVerdict(verdicts, row[i].key)
    /\ Matched(row[i]) => HasVerdict(verdicts, row[i].key)

\* C13: a chart entry whose key is "size" or whose value is not a number
\* produces no verdict, and the other entries of the same size that have a
\* numeric profile field are still evaluated; in both comparison loops.
C13_ExcludedEntriesGiveNoVerdict ==
  /\ Shown =>
       ExcludedSkippedOthersEvaluated(view.measurementComparisons,
                                      RecommendedRow)
  /\ DetailShown =>
       ExcludedSkippedOthersEvaluated(view.sizeComparison.detail.fitDetails,
                                      SelectedRow)

\* Size L holds a numeric "size" entry and a text waist, the profile has a
\* numeric size field, and chest is still evaluated.
C13_Witness ==
  /\ Shown
  /\ \E i \in DOMAIN RecommendedRow :
       RecommendedRow[i].key = sizeKey /\ RecommendedRow[i].value.type = "number"
  /\ \E i \in DOMAIN RecommendedRow :
       RecommendedRow[i].key = waistKey /\ RecommendedRow[i].value.type = "string"
  /\ profile.loaded
  /\ Get(profile.fields, sizeKey).type = "number"
  /\ HasVerdict(view.measurementComparisons, chestKey)
  /\ ~HasVerdict(view.measurementComparisons, sizeKey)

\* C14: the verdict sequence of a size holds exactly one verdict for each
\* chart key that is not "size", has a numeric chart value and names a
\* numeric profile field, none for any other key, in the chart's key order.
C14_OneVerdictPerMatchedKeyInOrder ==
  /\ Shown =>
       Keys(view.measurementComparisons)
         = Keys(SelectSeq(RecommendedRow, Matched))
  /\ DetailShown =>
       Keys(view.sizeComparison.detail.fitDetails)
         = Keys(SelectSeq(SelectedRow, Matched))

\* Size M against the full profile: size is skipped, and chest, waist and
\* arm_length give one verdict each, in that order.
C14_Witness ==
  /\ Shown
  /\ Len(RecommendedRow) = 4
  /\ Keys(view.measurementComparisons) = <<chestKey, waistKey, arm_lengthKey>>

\* The category the normal band gives a rounded difference d.
NormalBandStatus(d) ==
  LET b == FABRIC_EASE_CONFIGS.normal IN
    IF b.perfectMin <= d /\ d <= b.perfectMax THEN Perfect
    ELSE IF d < b.perfectMin THEN Tight
    ELSE Loose

\* C15: every evaluation completes with the stated default: a fabric type
\* other than rigid, normal, stretchy is classified with the normal band, a
\* chart key without a numeric profile field and a non-numeric chart value
\* are skipped, and an empty verdict list yields the fallback confidence.
C15_EveryDefaultApplies ==
  Shown =>
    /\ recommendation.data.fabricType \notin RecognizedFabrics =>
         \A i \in DOMAIN view.measurementComparisons :
           view.measurementComparisons[i].status
             = NormalBandStatus(view.measurementComparisons[i].difference)
    /\ \A i \in DOMAIN RecommendedRow :
         ~Matched(RecommendedRow[i])
           => ~HasVerdict(view.measurementComparisons, RecommendedRow[i].key)
    /\ view.measurementComparisons = <<>>
         => view.actualConfidence = recommendation.data.confidence

----------------------------------------------------------------------------
(* The range displayed with each verdict of the size comparison (Spec) *)

\* n = floor(x * 0.95) and n = ceil(x * 1.05) for x in units and n in whole
\* centimetres, stated as inequalities.
IsFloor95(n, x) == n * 100 * Cm <= 95 * x /\ 95 * x < (n + 1) * 100 * Cm
IsCeil105(n, x) == (n - 1) * 100 * Cm < 105 * x /\ 105 * x <= n * 100 * Cm

\* C16: for every verdict of the size-comparison view the displayed range
\* is [floor(chartValue * 0.95), ceil(chartValue * 1.05)]: it is fixed by
\* chartValue alone, whatever the fabric type, user value and category.
C16_RangeIsFivePercentOfChartValue ==
  DetailShown =>
    LET d == view.sizeComparison.detail IN
      /\ DOMAIN d.ranges = DOMAIN d.fitDetails
      /\ \A i \in DOMAIN d.fitDetails :
           /\ IsFloor95(d.ranges[i].rangeMin, d.fitDetails[i].chartValue)
           /\ IsCeil105(d.ranges[i].rangeMax, d.fitDetails[i].chartValue)

\* Chest 91 cm is shown as 86-96 and hip 100 cm as 95-105, with verdicts of
\* different categories in the same list.
C16_Witness ==
  /\ DetailShown
  /\ LET d == view.sizeComparison.detail IN
       /\ \E i \in DOMAIN d.fitDetails :
            /\ d.fitDetails[i].chartValue = 91 * Cm
            /\ d.ranges[i] = [rangeMin |-> 86, rangeMax |-> 96]
       /\ \E i \in DOMAIN d.fitDetails :
            /\ d.fitDetails[i].chartValue = 100 * Cm
            /\ d.ranges[i] = [rangeMin |-> 95, rangeMax |-> 105]
       /\ \E i, j \in DOMAIN d.fitDetails :
            d.fitDetails[i].status # d.fitDetails[j].status

----------------------------------------------------------------------------
(* The worked examples of the specification (SpecFit) *)

Example(u, c) ==
  Returned /\ fit.fabricType = "normal"
    /\ fit.userValue = u * Cm /\ fit.chartValue = c * Cm

\* C17: with fabric normal, user 90 and chart 91 give difference 1.0 and
\* perfect, user 90 and chart 85 give -5.0 and tight, user 80 and chart 86
\* give 6.0 and loose.
C17_WorkedExamples ==
  /\ Example(90, 91) => (Diff = 10 * Tenth /\ Status = perfect)
  /\ Example(90, 85) => (Diff = -50 * Tenth /\ Status = tight)
  /\ Example(80, 86) => (Diff = 60 * Tenth /\ Status = loose)

\* The first example has been evaluated.
C17_Witness == Example(90, 91) /\ Status = perfect

----------------------------------------------------------------------------
(* Evaluations in any order (SpecEval) *)

----------------------------------------------------------------------------
(* The recommended size and the selected size (Spec) *)

Supplied == recommendation.data.recommendedSize

\* C19: the recommended size shown is always the supplied
\* recommendation.recommendedSize; a step that changes the selected size
\* leaves the recommendation as it was; and the "recommended" marker of the
\* selected size is shown exactly when that size is the supplied label,
\* whatever the fit of the selected size is.
C19_RecommendedSizeIsSupplied ==
  /\ [](Shown => view.recommendedSize = Supplied)
  /\ [](DetailShown =>
          (view.sizeComparison.detail.isRecommended
             <=> view.sizeComparison.detail.size = Supplied))
  /\ [][selectedSize' # selectedSize => recommendation' = recommendation]_vars

\* The recommended size M is tight, the selected size L fits perfectly, and
\* the marker is not shown for L.
C19_Witness ==
  /\ DetailShown
  /\ Supplied = "M"
  /\ selectedSize = "L"
  /\ view.actualConfidence = Tight
  /\ view.sizeComparison.detail.overallFit = perfect
  /\ ~view.sizeComparison.detail.isRecommended

----------------------------------------------------------------------------
(* The default selection (SpecEval) *)

\* C20 as stated: the effect that runs when the recommendation has loaded
\* and no size is selected sets the selected size to the recommended size;
\* and once the user has clicked a size tab, no step other than another
\* click (a render, a profile or recommendation update, the effect)
\* changes the selected size.
C20_UserSelectionIsKept ==
  [][/\ (history'.event = "effect" => selectedSize' = Supplied)
     /\ (history.clicked /\ history'.event # "click"
           => selectedSize' = selectedSize)]_vars

----------------------------------------------------------------------------
(* Displayed status labels (Spec) *)

IsLength(key) == userKeyOf(key) \in LengthMeasurements
ShortLong(status, label) ==
  /\ toLowerCase(status) = tight => label = short
  /\ toLowerCase(status) = loose => label = long

\* C21 as stated: for a length measurement, under either naming convention
\* of the chart key, a tight verdict is displayed as short and a loose
\* verdict as long, on the measurement comparison cards and in the fit
\* details list of the selected size.
C21_LengthVerdictsShortLong ==
  Shown =>
    /\ \A i \in DOMAIN view.measurementComparisons :
         IsLength(view.measurementComparisons[i].key) =>
           ShortLong(view.measurementComparisons[i].status, view.cardLabels[i])
    /\ DetailShown =>
         \A i \in DOMAIN view.sizeComparison.detail.fitDetails :
           IsLength(view.sizeComparison.detail.fitDetails[i].key) =>
             ShortLong(view.sizeComparison.detail.fitDetails[i].status,
                       view.sizeComparison.detail.statusLabels[i])

----------------------------------------------------------------------------
(* Size-chart data that fails to parse (Spec) *)

Unparsable ==
  /\ recommendation.data.loaded
  /\ recommendation.data.sizeChartData.kind = "string"
  /\ ~recommendation.data.sizeChartData.valid

\* C22: when the stored size chart is a string that JSON.parse rejects, the
\* chart used is the empty object, the page shows the recommendation screen
\* with no measurement comparison and no size tab, and the confidence shown
\* is the supplied recommendation.confidence.
C22_UnparsableChartIsEmpty ==
  Unparsable =>
    /\ ParsedChart = [kind |-> "object", sizes |-> <<>>]
    /\ Shown
    /\ view.measurementComparisons = <<>>
    /\ view.sizeComparison.tabs = <<>>
    /\ view.actualConfidence = recommendation.data.confidence

\* An unparsable chart is rendered with the profile loaded and a size
\* selected.
C22_Witness ==
  /\ Unparsable
  /\ profile.loaded
  /\ Get(profile.fields, chestKey).type = "number"
  /\ selectedSize = recommendation.data.recommendedSize
  /\ view.actualConfidence = Good

----------------------------------------------------------------------------
(* Requests of the ProfileCreation page (SpecProfile) *)

\* the requests issued by the step
Issued ==
  SubSeq(creation'.requests, Len(creation.requests) + 1,
         Len(creation'.requests))
HasProfileWithId ==
  creation.existingProfile.kind = "profile" /\ creation.existingProfile.id # ""
HasNoProfile == creation.existingProfile.kind \in {"null", "undefined"}

\* C23: a form submit issues exactly one request: when a profile with an
\* id exists, an update (PUT) for that id, on the create route as on the
\* edit route; when no profile exists, a create (POST).
C23_SubmitUpdatesExistingProfile ==
  [][creation'.event = "submit" =>
       /\ HasProfileWithId =>
            Issued = <<Put(creation.existingProfile.id, creation.formValues)>>
       /\ HasNoProfile => Issued = <<Post(creation.formValues)>>]_vars

\* On the create route, with a profile that has an id, a submit has issued
\* an update for that id.
C23_Witness ==
  /\ creation.location = "/profile"
  /\ creation.event = "submit"
  /\ ~creation.isEditMode
  /\ creation.existingProfile.kind = "profile"
  /\ creation.requests = <<Put("p1", "v2")>>

\* C24: when an update fails with a message that contains "Profile not
\* found" or "404", one create request carrying the current form values is
\* issued and no toast is added; for every other update error one
\* destructive toast is added and no request is issued.
C24_UpdateNotFoundFallsBackToCreate ==
  [][creation'.event = "updateError" =>
       LET message == creation'.error IN
         IF includes(message, ProfileNotFound) \/ includes(message, NotFound404)
           THEN /\ Issued = <<Post(creation.formValues)>>
                /\ creation'.toasts = creation.toasts
           ELSE /\ Issued = <<>>
                /\ Len(creation'.toasts) = Len(creation.toasts) + 1
                /\ creation'.toasts[Len(creation'.toasts)].variant
                     = "destructive"]_vars

\* An update submitted with the values v1 failed with "Profile not found"
\* after the form was changed to v2, and the create carries v2.
C24_Witness ==
  /\ creation.location = "/profile"
  /\ creation.event = "updateError"
  /\ creation.error = ProfileNotFound
  /\ creation.requests = <<Put("p1", "v1"), Post("v2")>>
  /\ creation.toasts = <<>>

----------------------------------------------------------------------------
(* NumberInput (SpecInput) *)

\* C25 as stated: after any sequence of focus, change, blur and key events
\* on an input whose initial form value is undefined or a non-negative
\* integer, the form field value is undefined or a non-negative integer,
\* and the local text is empty or consists of the digits 0-9 only.
C25_IntegerValueAndDigitText ==
  /\ \/ input.value = NoValue
     \/ /\ input.value.type = "number"
        /\ input.value.digits # <<>>
        /\ \A i \in DOMAIN input.value.digits : input.value.digits[i] \in Digits
  /\ \A i \in DOMAIN input.localValue : input.localValue[i] \in Digits

----------------------------------------------------------------------------
(* The fallback category (SpecFit) *)

ClassifierVerdicts == {Perfect, Tight, Loose}
WithOthers(status, others) ==
  <<Comparison(Capitalize(status))>>
    \o [i \in DOMAIN others |-> Comparison(others[i])]

\* C26: for a fabric type that resolves to a band, calculateFitStatus
\* returns perfect, tight or loose, never good; and a verdict list made of
\* its result and of other such verdicts is never aggregated to Good.
C26_ClassifierNeverGood ==
  (Returned /\ YieldsBand(fit.fabricType)) =>
    /\ Status \in {perfect, tight, loose}
    /\ \A others \in SeqsUpTo(ClassifierVerdicts, MaxVerdicts - 1) :
         deriveActualConfidence(WithOthers(Status, others), High)
           \in ClassifierVerdicts

\* A difference between tightThreshold and perfectMin of the normal band,
\* classified tight.
C26_Witness ==
  /\ Returned
  /\ fit.fabricType = "normal"
  /\ Diff = -20 * Tenth
  /\ Status = tight

----------------------------------------------------------------------------
(* overallFit and deriveActualConfidence (Spec) *)

VerdictLists == SeqsUpTo({perfect, good, tight, loose}, MaxVerdicts)
AsFitDetails(sts) == [i \in DOMAIN sts |-> [status |-> sts[i]]]
AsComparisons(sts) == [i \in DOMAIN sts |-> Comparison(Capitalize(sts[i]))]
unknown == <<"u","n","k","n","o","w","n">>

\* C27: for every non-empty verdict list overallFit equals the lower-cased
\* result of deriveActualConfidence on the same verdicts, and for the empty
\* list overallFit is "unknown"; so on the page, the overall fit of the
\* selected size is the lower-cased aggregate of its own verdicts, and when
\* the selected size is the recommended size with at least one verdict it
\* is the lower-cased headline confidence.
C27_OverallFitAgreesWithConfidence ==
  Shown =>
    /\ \A sts \in VerdictLists :
         overallFitOf(AsFitDetails(sts)) =
           IF sts = <<>> THEN unknown
           ELSE toLowerCase(deriveActualConfidence(AsComparisons(sts), High))
    /\ DetailShown =>
         LET d == view.sizeComparison.detail IN
           /\ d.fitDetails = <<>> => d.overallFit = unknown
           /\ d.fitDetails # <<>> =>
                /\ d.overallFit =
                     toLowerCase(deriveActualConfidence(
                                   CapitalizeStatus(d.fitDetails), High))
                /\ selectedSize = Supplied =>
                     d.overallFit = toLowerCase(view.actualConfidence)

\* The recommended size is selected, its verdicts are not all the same, and
\* both labels are tight.
C27_Witness ==
  /\ DetailShown
  /\ selectedSize = Supplied
  /\ \E i, j \in DOMAIN view.sizeComparison.detail.fitDetails :
       /\ view.sizeComparison.detail.fitDetails[i].status = tight
       /\ view.sizeComparison.detail.fitDetails[j].status = perfect
  /\ view.sizeComparison.detail.overallFit = tight
  /\ view.actualConfidence = Tight

----------------------------------------------------------------------------
(* The headline and the selected size (Spec) *)

Headline(v) ==
  <<v.actualConfidence, v.measurementComparisons, v.cardLabels>>

\* C28: the headline confidence and the measurement comparison cards do
\* not depend on the selected size: rendering the page with any other
\* selection gives the same headline, and a step that changes the selected
\* size leaves the headline as it was.
C28_HeadlineIgnoresSelectedSize ==
  /\ [](Shown =>
          \A size \in TabSizes \cup PageSizes \cup {NoSize} :
            Headline(Render(FABRIC_EASE_CONFIGS, recommendation, profile,
                            size)) = Headline(view))
  /\ [][(selectedSize' # selectedSize /\ Shown /\ Shown')
          => Headline(view') = Headline(view)]_vars

\* A size other than the recommended one is selected, its overall fit
\* differs from the headline, and the headline has comparisons.
C28_Witness ==
  /\ DetailShown
  /\ Supplied = "L"
  /\ selectedSize = "M"
  /\ view.measurementComparisons # <<>>
  /\ view.sizeComparison.detail.fitDetails # <<>>
  /\ view.sizeComparison.detail.overallFit # toLowerCase(view.actualConfidence)

----------------------------------------------------------------------------
(* Monotonicity of calculateFitStatus (SpecFit) *)

Rank(status) ==
  IF status = tight THEN 0 ELSE IF status = perfect THEN 1 ELSE 2
StatusAt(chartValue) ==
  calculateFitStatus(FABRIC_EASE_CONFIGS, fit.userValue, chartValue,
                     fit.fabricType).status

\* C29: for a fixed userValue and a fabric type that resolves to a band,
\* the category does not decrease in the order tight < perfect < loose
\* when chartValue grows: every chart value at least as large as the one
\* classified gets a category at least as loose.
C29_MonotoneInChartValue ==
  (Returned /\ YieldsBand(fit.fabricType)) =>
    \A e \in EaseValues :
      fit.userValue + e >= fit.chartValue =>
        /\ StatusAt(fit.userValue + e) \in {tight, perfect, loose}
        /\ Rank(Status) <= Rank(StatusAt(fit.userValue + e))

\* A chart value at the upper edge of the stretchy band: perfect, and loose
\* one tenth of a centimetre above.
C29_Witness ==
  /\ Returned
  /\ fit.fabricType = "stretchy"
  /\ Status = perfect
  /\ StatusAt(fit.chartValue + Tenth) = loose
  /\ StatusAt(fit.chartValue - 6 * Cm) = tight

====
